---- MODULE Spec2Model ----
(***************************************************************************)
(* Model of openglcts-mini:                                                *)
(*   - main() of src/main.cpp: the setup sequence, the iteration loop, the *)
(*     scope exit / stack unwinding, the top-level catch and the return;   *)
(*   - the stub vk::Library / vk::NullDriver of src/vkPlatform.hpp and     *)
(*     src/vkNullDriver.hpp: createNullDriver, delete, and the two         *)
(*     accessors.                                                          *)
(* The external framework (tcu::CommandLine, tcu::App, ...) is the         *)
(* environment: each of its calls either returns or throws, and what it    *)
(* throws is either derived from std::exception or not.                    *)
(***************************************************************************)
EXTENDS Integers, Sequences, FiniteSets

VARIABLES
    pc,             \* position of main
    quiet,          \* what cmdLine.quietMode() reports ("unset" before parsing)
    redirected,     \* TRUE once qpRedirectOut has installed the null writers
    constructed,    \* the locals of the try block, in order of construction
    destroyed,      \* the locals whose destructor has run, in order of destruction
    exc,            \* kind of the exception in flight or handled: none / std / other
    excAt,          \* where it was raised: none / setup / iterate
    iterCalls,      \* number of app->iterate() calls made (saturates at MaxIter)
    iterTick,       \* flips at every app->iterate() call
    lastIter,       \* outcome of the latest iterate() call
    failedCases,    \* test cases that failed inside iterate() (owned by tcu::App)
    stderrMsgs,     \* messages main printed to stderr
    exitStatus,     \* local variable exitStatus
    live,           \* heap: addresses of the Library instances alive
    m_dummyInterface, \* static member vk::Library::m_dummyInterface
    ret,            \* record of the latest Library operation and what it returned
    allocs          \* number of heap allocations made (saturates at MaxAllocs)

mainVars == <<pc, quiet, redirected, constructed, destroyed, exc, excAt,
              iterCalls, iterTick, lastIter, failedCases, stderrMsgs,
              exitStatus>>
libVars  == <<live, m_dummyInterface, ret, allocs>>
vars     == <<pc, quiet, redirected, constructed, destroyed, exc, excAt,
              iterCalls, iterTick, lastIter, failedCases, stderrMsgs, exitStatus,
              live, m_dummyInterface, ret, allocs>>

----------------------------------------------------------------------------
(* Bounds *)
MaxIter == 3
MaxFail == 2
MaxAddr == 4
MaxAllocs == 5

(* Program constants *)
EXIT_SUCCESS == 0
EXIT_FAILURE == 1

Min(a, b) == IF a < b THEN a ELSE b

RECURSIVE Reverse(_)
Reverse(s) == IF s = <<>> THEN <<>> ELSE Append(Reverse(Tail(s)), Head(s))

Range(s) == {s[i] : i \in 1..Len(s)}

\* Kinds of exception a call may throw: the catch clause of main names
\* const std::exception&, so what matters is whether the type derives from it.
ExcKinds == {"std", "other"}

\* The locals of the try block in declaration order.
Locals == <<"cmdLine", "archive", "log", "platform", "app">>

\* Locals constructed and not yet destroyed, in construction order.
Alive == SelectSeq(constructed, LAMBDA o : o \notin Range(destroyed))

----------------------------------------------------------------------------
(* main *)

MainInit ==
    /\ pc = "cmdLine"
    /\ quiet = "unset"
    /\ redirected = FALSE
    /\ constructed = <<>>
    /\ destroyed = <<>>
    /\ exc = "none"
    /\ excAt = "none"
    /\ iterCalls = 0
    /\ iterTick = 0
    /\ lastIter = "none"
    /\ failedCases = 0
    /\ stderrMsgs = 0
    /\ exitStatus = EXIT_SUCCESS

\* Mutant of Raise: the handler matches nothing.
RaiseUnmatched(kind, where) ==
    /\ exc' = kind
    /\ excAt' = where
    /\ pc' = "no_handler"

\* A throw inside the try block: the handler of main matches std::exception
\* only. A matching exception unwinds the stack and enters the handler; one
\* that matches no handler ends in std::terminate.
Raise(kind, where) ==
    /\ exc' = kind
    /\ excAt' = where
    /\ pc' = IF kind = "std" THEN "unwind" ELSE "no_handler"

\* Mutant of Construct: a failed construction is ignored and main goes on.
ConstructIgnoringFailure(at, obj, next) ==
    /\ pc = at
    /\ pc' = next
    /\ \/ constructed' = Append(constructed, obj)
       \/ UNCHANGED constructed
    /\ UNCHANGED <<exc, excAt>>

\* A constructor of the setup sequence: it returns (the local is constructed
\* and main moves to next) or throws.
Construct(at, obj, next) ==
    /\ pc = at
    /\ \/ /\ constructed' = Append(constructed, obj)
          /\ pc' = next
          /\ UNCHANGED <<exc, excAt>>
       \/ /\ \E kind \in ExcKinds : Raise(kind, "setup")
          /\ UNCHANGED constructed

\* tcu::CommandLine cmdLine(argc, argv);
MainCmdLine ==
    /\ Construct("cmdLine", "cmdLine", "quietCheck")
    /\ UNCHANGED <<quiet, redirected, destroyed, iterCalls, iterTick, lastIter,
                   failedCases, stderrMsgs, exitStatus, libVars>>

\* qpRedirectOut with two writers that write nothing.
disableStdout == redirected' = TRUE

\* Mutant of MainQuietCheck: stdout is redirected whatever quietMode() says.
MainQuietCheckAlways ==
    /\ pc = "quietCheck"
    /\ \E q \in {"yes", "no"} : quiet' = q
    /\ disableStdout
    /\ pc' = "archive"
    /\ UNCHANGED <<constructed, destroyed, exc, excAt, iterCalls, iterTick,
                   lastIter, failedCases, stderrMsgs, exitStatus, libVars>>

\* if (cmdLine.quietMode()) disableStdout();
MainQuietCheck ==
    /\ pc = "quietCheck"
    /\ \E q \in {"yes", "no"} :
          /\ quiet' = q
          /\ IF q = "yes" THEN disableStdout ELSE UNCHANGED redirected
    /\ pc' = "archive"
    /\ UNCHANGED <<constructed, destroyed, exc, excAt, iterCalls, iterTick,
                   lastIter, failedCases, stderrMsgs, exitStatus, libVars>>

\* tcu::DirArchive archive(cmdLine.getArchiveDir());
MainArchive ==
    /\ Construct("archive", "archive", "log")
    /\ UNCHANGED <<quiet, redirected, destroyed, iterCalls, iterTick, lastIter,
                   failedCases, stderrMsgs, exitStatus, libVars>>

\* tcu::TestLog log(cmdLine.getLogFileName(), cmdLine.getLogFlags());
MainLog ==
    /\ Construct("log", "log", "platform")
    /\ UNCHANGED <<quiet, redirected, destroyed, iterCalls, iterTick, lastIter,
                   failedCases, stderrMsgs, exitStatus, libVars>>

\* de::UniquePtr<tcu::Platform> platform(createPlatform());
MainPlatform ==
    /\ Construct("platform", "platform", "app")
    /\ UNCHANGED <<quiet, redirected, destroyed, iterCalls, iterTick, lastIter,
                   failedCases, stderrMsgs, exitStatus, libVars>>

\* de::UniquePtr<tcu::App> app(new tcu::App(*platform, archive, log, cmdLine));
MainApp ==
    /\ Construct("app", "app", "loop")
    /\ UNCHANGED <<quiet, redirected, destroyed, iterCalls, iterTick, lastIter,
                   failedCases, stderrMsgs, exitStatus, libVars>>

\* Mutant of MainIterate: the result of iterate() is ignored, the loop goes
\* round after a false return too.
MainIterateIgnoresResult ==
    /\ pc = "loop"
    /\ iterCalls' = Min(iterCalls + 1, MaxIter)
    /\ iterTick' = 1 - iterTick
    /\ \E f \in 0..1 : failedCases' = Min(failedCases + f, MaxFail)
    /\ \/ /\ lastIter' \in {"true", "false"}
          /\ pc' = "loop"
          /\ UNCHANGED <<exc, excAt>>
       \/ /\ lastIter' = "throw"
          /\ \E kind \in ExcKinds : Raise(kind, "iterate")
    /\ UNCHANGED <<quiet, redirected, constructed, destroyed, stderrMsgs,
                   exitStatus, libVars>>

\* Mutant of MainIterate: main bounds the number of iterations, the loop
\* ends after MaxIter calls even when iterate() returned true.
MainIterateBounded ==
    /\ pc = "loop"
    /\ iterCalls' = Min(iterCalls + 1, MaxIter)
    /\ iterTick' = 1 - iterTick
    /\ \E f \in 0..1 : failedCases' = Min(failedCases + f, MaxFail)
    /\ \/ /\ lastIter' = "true"
          /\ pc' = IF iterCalls' < MaxIter THEN "loop" ELSE "scope_exit"
          /\ UNCHANGED <<exc, excAt>>
       \/ /\ lastIter' = "false"
          /\ pc' = "scope_exit"
          /\ UNCHANGED <<exc, excAt>>
       \/ /\ lastIter' = "throw"
          /\ \E kind \in ExcKinds : Raise(kind, "iterate")
    /\ UNCHANGED <<quiet, redirected, constructed, destroyed, stderrMsgs,
                   exitStatus, libVars>>

\* One evaluation of the loop condition app->iterate(): the call returns
\* true (the loop goes round), returns false (the loop ends) or throws.
\* Inside the call any number of test cases may fail.
MainIterate ==
    /\ pc = "loop"
    /\ iterCalls' = Min(iterCalls + 1, MaxIter)
    /\ iterTick' = 1 - iterTick
    /\ \E f \in 0..1 : failedCases' = Min(failedCases + f, MaxFail)
    /\ \/ /\ lastIter' = "true"
          /\ pc' = "loop"
          /\ UNCHANGED <<exc, excAt>>
       \/ /\ lastIter' = "false"
          /\ pc' = "scope_exit"
          /\ UNCHANGED <<exc, excAt>>
       \/ /\ lastIter' = "throw"
          /\ \E kind \in ExcKinds : Raise(kind, "iterate")
    /\ UNCHANGED <<quiet, redirected, constructed, destroyed, stderrMsgs,
                   exitStatus, libVars>>

\* Mutant of NextToDestroy: destruction in order of construction.
NextToDestroyForward == Alive[1]

\* The local destroyed next when the scope of the try block is left:
\* automatic objects are destroyed in reverse order of construction.
NextToDestroy == Alive[Len(Alive)]

\* One destructor call, at the end of the try block or during unwinding.
MainDestroy ==
    /\ pc \in {"scope_exit", "unwind"}
    /\ Alive # <<>>
    /\ destroyed' = Append(destroyed, NextToDestroy)
    /\ UNCHANGED <<pc, quiet, redirected, constructed, exc, excAt, iterCalls,
                   iterTick, lastIter, failedCases, stderrMsgs, exitStatus, libVars>>

\* Mutant of MainLeaveTry: the exit status reports the failed test cases.
MainLeaveTryReportsFailures ==
    /\ pc = "scope_exit"
    /\ Alive = <<>>
    /\ exitStatus' = IF failedCases > 0 THEN EXIT_FAILURE ELSE exitStatus
    /\ pc' = "return"
    /\ UNCHANGED <<quiet, redirected, constructed, destroyed, exc, excAt,
                   iterCalls, iterTick, lastIter, failedCases, stderrMsgs,
                   libVars>>

\* Normal completion of the try block: control passes the handler.
MainLeaveTry ==
    /\ pc = "scope_exit"
    /\ Alive = <<>>
    /\ pc' = "return"
    /\ UNCHANGED <<quiet, redirected, constructed, destroyed, exc, excAt,
                   iterCalls, iterTick, lastIter, failedCases, stderrMsgs,
                   exitStatus, libVars>>

\* Mutant of MainCatch: the handler prints and leaves exitStatus alone.
MainCatchKeepsStatus ==
    /\ pc = "unwind"
    /\ Alive = <<>>
    /\ stderrMsgs' = stderrMsgs + 1
    /\ pc' = "return"
    /\ UNCHANGED <<quiet, redirected, constructed, destroyed, exc, excAt,
                   iterCalls, iterTick, lastIter, failedCases, exitStatus,
                   libVars>>

\* catch (const std::exception& e) { fprintf(stderr, ...); exitStatus = EXIT_FAILURE; }
MainCatch ==
    /\ pc = "unwind"
    /\ Alive = <<>>
    /\ stderrMsgs' = stderrMsgs + 1
    /\ exitStatus' = EXIT_FAILURE
    /\ pc' = "return"
    /\ UNCHANGED <<quiet, redirected, constructed, destroyed, exc, excAt,
                   iterCalls, iterTick, lastIter, failedCases, libVars>>

\* No handler matches: std::terminate is called and main never returns.
\* Whether the stack is unwound first is implementation-defined.
MainTerminate ==
    /\ pc = "no_handler"
    /\ \E unwound \in BOOLEAN :
          destroyed' = IF unwound THEN Reverse(constructed) ELSE destroyed
    /\ pc' = "terminated"
    /\ UNCHANGED <<quiet, redirected, constructed, exc, excAt, iterCalls,
                   iterTick, lastIter, failedCases, stderrMsgs, exitStatus, libVars>>

\* return exitStatus;
MainReturn ==
    /\ pc = "return"
    /\ pc' = "done"
    /\ UNCHANGED <<quiet, redirected, constructed, destroyed, exc, excAt,
                   iterCalls, iterTick, lastIter, failedCases, stderrMsgs,
                   exitStatus, libVars>>

----------------------------------------------------------------------------
(* vk::Library / vk::NullDriver *)

\* Address of the static dummy PlatformInterface object; heap addresses are
\* 1..MaxAddr.
DummyAddr == 0
Heap == 1..MaxAddr

\* Definition of the static member Library::m_dummyInterface.
DummyInterfaceInit == DummyAddr

LibInit ==
    /\ live = {}
    /\ m_dummyInterface = DummyInterfaceInit
    /\ ret = [op |-> "none", self |-> DummyAddr, val |-> DummyAddr]
    /\ allocs = 0

\* Mutant of NewAddr: an address in use may be handed out again (one shared
\* instance).
NewAddrAny(a) == a \in Heap

\* operator new: any address not in use.
NewAddr(a) == a \in Heap \ live

\* inline Library* createNullDriver() { return new NullDriver(); }
createNullDriver ==
    /\ \E a \in Heap :
          /\ NewAddr(a)
          /\ live' = live \cup {a}
          /\ ret' = [op |-> "createNullDriver", self |-> DummyAddr, val |-> a]
    /\ allocs' = Min(allocs + 1, MaxAllocs)
    /\ UNCHANGED <<m_dummyInterface, mainVars>>

\* delete lib; (virtual ~NullDriver() {} and ~Library() {} have empty bodies)
deleteLibrary ==
    /\ \E a \in live :
          /\ live' = live \ {a}
          /\ ret' = [op |-> "delete", self |-> a, val |-> DummyAddr]
    /\ UNCHANGED <<m_dummyInterface, allocs, mainVars>>

\* Mutant of getPlatformInterface: a new interface object is allocated for
\* every call.
getPlatformInterfaceAllocating ==
    /\ \E a \in live : \E b \in Heap \ live :
          /\ live' = live \cup {b}
          /\ ret' = [op |-> "getPlatformInterface", self |-> a, val |-> b]
    /\ allocs' = Min(allocs + 1, MaxAllocs)
    /\ UNCHANGED <<m_dummyInterface, mainVars>>

\* const PlatformInterface& getPlatformInterface() const { return *m_dummyInterface; }
getPlatformInterface ==
    /\ \E a \in live :
          ret' = [op |-> "getPlatformInterface", self |-> a,
                  val |-> m_dummyInterface]
    /\ UNCHANGED <<live, m_dummyInterface, allocs, mainVars>>

\* const tcu::FunctionLibrary& getFunctionLibrary() const
\*   { return *reinterpret_cast<const tcu::FunctionLibrary*>(m_dummyInterface); }
getFunctionLibrary ==
    /\ \E a \in live :
          ret' = [op |-> "getFunctionLibrary", self |-> a,
                  val |-> m_dummyInterface]
    /\ UNCHANGED <<live, m_dummyInterface, allocs, mainVars>>

----------------------------------------------------------------------------
(* Specifications *)

Init == MainInit /\ LibInit

MainNext ==
    \/ MainCmdLine
    \/ MainQuietCheck
    \/ MainArchive
    \/ MainLog
    \/ MainPlatform
    \/ MainApp
    \/ MainIterate
    \/ MainDestroy
    \/ MainLeaveTry
    \/ MainCatch
    \/ MainTerminate
    \/ MainReturn

LibNext ==
    \/ createNullDriver
    \/ deleteLibrary
    \/ getPlatformInterface
    \/ getFunctionLibrary

Next == MainNext

\* main alone.
Spec == Init /\ [][Next]_vars

\* main on its one thread keeps running, and iterate() does not return true
\* for ever.
IterateEnds == MainIterate /\ lastIter' # "true"
FairSpec == Spec /\ WF_vars(MainNext) /\ WF_vars(IterateEnds)

\* A client of the stub library.
LibSpec == Init /\ [][LibNext]_vars

----------------------------------------------------------------------------
(* Properties *)

IsPrefix(s, t) == Len(s) <= Len(t) /\ SubSeq(t, 1, Len(s)) = s

\* Every step that changes iterTick is an iterate() call, and the other way
\* round.
IterateCalled == iterTick' # iterTick

\* C1 as stated: main returns a non-zero code if and only if an exception
\* escaped the iteration loop (the iterate() calls); otherwise it returns zero.
C1_OnlyLoopExceptionsFail ==
    pc = "done" => (exitStatus # EXIT_SUCCESS <=> excAt = "iterate")

\* C1 amended: when main returns, its code is EXIT_FAILURE if and only if an
\* exception derived from std::exception was raised inside the try block,
\* during setup or during an iterate() call, and EXIT_SUCCESS if and only if
\* no exception was raised.
C1_ExitCode ==
    pc = "done" =>
        /\ exitStatus \in {EXIT_SUCCESS, EXIT_FAILURE}
        /\ exitStatus = EXIT_FAILURE <=> exc = "std"
        /\ exitStatus = EXIT_SUCCESS <=> exc = "none"
        /\ exc = "std" => excAt \in {"setup", "iterate"}

C1_Witness == pc = "done" /\ excAt = "setup" /\ exitStatus = EXIT_FAILURE

\* C2: when no exception is raised main returns EXIT_SUCCESS, whatever the
\* number of iterate() calls and of failed test cases.
C2_SuccessWhateverFailed ==
    \A n \in 0..MaxIter : \A f \in 0..MaxFail :
        (pc = "done" /\ exc = "none" /\ iterCalls = n /\ failedCases = f)
            => exitStatus = EXIT_SUCCESS

C2_Witness ==
    pc = "done" /\ exc = "none" /\ iterCalls = MaxIter /\ failedCases >= 1

\* C3 as stated: every exception raised inside main is handled by the catch
\* of main: it never leaves main, and main returns EXIT_FAILURE after one
\* message on stderr.
C3_EveryExceptionHandled ==
    exc # "none" =>
        /\ pc \notin {"no_handler", "terminated"}
        /\ pc = "done" => stderrMsgs = 1 /\ exitStatus = EXIT_FAILURE

\* C3 amended: every exception derived from std::exception raised inside the
\* try block (setup or iterate()) is handled by the catch of main: it never
\* leaves main, one message is printed to stderr and none without such an
\* exception, exitStatus becomes EXIT_FAILURE, no iterate() call follows the
\* throw, and main returns EXIT_FAILURE.
C3_StdExceptionHandled ==
    /\ [](exc = "std" => pc \in {"unwind", "return", "done"})
    /\ [](exc = "std" /\ pc \in {"return", "done"}
            => stderrMsgs = 1 /\ exitStatus = EXIT_FAILURE)
    /\ [](exc # "std" \/ pc = "unwind" => stderrMsgs = 0)
    /\ [][exc # "none" => ~IterateCalled]_vars
    /\ (exc = "std") ~> (pc = "done" /\ exitStatus = EXIT_FAILURE)

C3_Witness ==
    pc = "done" /\ exc = "std" /\ excAt = "iterate" /\ stderrMsgs = 1

\* C4: once setup has succeeded main calls iterate() at least once; after a
\* call that returned true the next thing main does is another call; after
\* the call that returned false no call is made and main returns.
C4_LoopUntilFalse ==
    /\ (pc = "loop" /\ iterCalls = 0) ~> (iterCalls >= 1)
    /\ [](constructed = Locals /\ pc # "loop" => iterCalls >= 1)
    /\ [](lastIter = "true" => pc = "loop")
    /\ [][lastIter = "true" => IterateCalled]_vars
    /\ [][lastIter = "false" => ~IterateCalled]_vars
    /\ (lastIter = "false") ~> (pc = "done")

C4_Witness == pc = "done" /\ lastIter = "false" /\ iterCalls >= 2

\* C5: the locals are constructed in the order cmdLine, archive, log,
\* platform, app; iterate() is called only when all five are constructed,
\* and never in a run in which a construction failed.
C5_SetupBeforeIterate ==
    /\ IsPrefix(constructed, Locals)
    /\ iterCalls > 0 \/ pc = "loop" => constructed = Locals
    /\ excAt = "setup" => iterCalls = 0 /\ constructed # Locals

C5_Witness ==
    pc = "done" /\ excAt = "setup" /\ constructed = <<"cmdLine", "archive", "log">>

\* C6 as stated: if iterate() eventually returns false or throws, main
\* eventually returns an exit code; the loop is left in no other way.
C6_MainReturns ==
    /\ (pc = "loop") ~> (pc = "done")
    /\ [][pc = "loop" /\ pc' # "loop"
            => IterateCalled /\ lastIter' \in {"false", "throw"}]_vars

\* C6 amended: if iterate() eventually returns false or throws, main
\* eventually returns an exit code or, when what was thrown is not derived
\* from std::exception, the process is terminated without main returning;
\* the loop is left only by an iterate() call returning false or throwing.
C6_MainReturnsOrTerminates ==
    /\ (pc = "loop") ~> (pc \in {"done", "terminated"})
    /\ [](pc \in {"no_handler", "terminated"} => exc = "other")
    /\ [][pc = "loop" /\ pc' # "loop"
            => IterateCalled /\ lastIter' \in {"false", "throw"}]_vars

C6_Witness == pc = "terminated" /\ excAt = "iterate" /\ iterCalls = MaxIter

C8_FreshInstances ==
    [][/\ (ret'.op = "createNullDriver" /\ <<live, ret, allocs>>' # <<live, ret, allocs>>)
            => /\ ret'.val \notin live
               /\ ret'.val # m_dummyInterface
               /\ live' = live \cup {ret'.val}
               /\ m_dummyInterface' = m_dummyInterface
       /\ (ret'.op = "delete" /\ ret' # ret)
            => /\ ret'.self \in live
               /\ live' = live \ {ret'.self}
               /\ m_dummyInterface' = m_dummyInterface]_vars

C8_Witness ==
    ret.op = "createNullDriver" /\ Cardinality(live) >= 3 /\ allocs > Cardinality(live)

\* C9: the locals are destroyed in reverse order of construction, each at
\* most once; when main is past the try block every constructed local has
\* been destroyed; app is never alive without platform, log, archive and
\* cmdLine alive.
C9_ReverseDestruction ==
    /\ IsPrefix(destroyed, Reverse(constructed))
    /\ pc \in {"return", "done"} => destroyed = Reverse(constructed)
    /\ "app" \in Range(Alive) => Alive = Locals

C9_Witness ==
    pc = "done" /\ exc = "std" /\ excAt = "iterate" /\ destroyed = Reverse(Locals)

\* C10: stdout is redirected exactly when the parsed command line reported
\* quiet mode; that is decided after cmdLine is constructed and before
\* archive, log, platform and app are, so before any iterate() call; the
\* redirection is never undone.
C10_QuietRedirect ==
    /\ [](redirected <=> quiet = "yes")
    /\ [](quiet # "unset" => Len(constructed) >= 1)
    /\ [](quiet = "unset" => Len(constructed) <= 1 /\ iterCalls = 0)
    /\ [][quiet = "unset" /\ quiet' # "unset"
            => constructed = <<"cmdLine">> /\ constructed' = constructed]_vars
    /\ [][redirected => redirected']_vars

C10_Witness == pc = "done" /\ redirected /\ iterCalls >= 1

====
